---- MODULE Spec2Model ----
(***************************************************************************)
(* A state-machine model of rl/callbacks.py: the CallbackList dispatcher,  *)
(* the TrainEpisodeLogger, the TrainIntervalLogger and the FileLogger.     *)
(* Every handler of the source is one action; an exception raised by a     *)
(* handler is recorded in the component's "last" record and leaves the     *)
(* object in the state the statements executed before the raise produced.  *)
(***************************************************************************)
EXTENDS Integers, Sequences, FiniteSets, TLC

VARIABLES
    clock,          \* the value timeit.default_timer() returned last
    events,         \* number of events delivered to the logger so far
    cl_callbacks,   \* CallbackList.callbacks, in registration order
    cl_calls,       \* hook invocations made by the latest dispatch, in order
    cl_last,        \* the latest dispatch: hook, index, logs, outcome
    tel_train_start,    \* TrainEpisodeLogger.train_start
    tel_metrics_names,  \* TrainEpisodeLogger.metrics_names
    tel_episode_start,  \* TrainEpisodeLogger.episode_start
    tel_observations,   \* TrainEpisodeLogger.observations
    tel_rewards,        \* TrainEpisodeLogger.rewards
    tel_actions,        \* TrainEpisodeLogger.actions
    tel_metrics,        \* TrainEpisodeLogger.metrics
    tel_step,           \* TrainEpisodeLogger.step
    tel_summary,        \* the variables of the summary line printed last
    tel_last,           \* the latest event: handler, episode, outcome
    tel_received,       \* history: step-end events per episode id since its episode-begin
    tel_reward_sum,     \* history: sum of the rewards of those events
    tel_processed,      \* history: step-end events that returned
    tel_open,           \* history: ids whose episode-begin returned, no episode-end returned since
    fl_save_continiously,   \* FileLogger.save_continiously
    fl_metrics_names,   \* FileLogger.metrics_names
    fl_file,            \* FileLogger.file: "unset", "open" or "closed"
    fl_content,         \* the content of the log file
    fl_metrics,         \* FileLogger.metrics
    fl_starts,          \* FileLogger.starts
    fl_data,            \* FileLogger.data
    fl_written,         \* the table json.dump was given last
    fl_last,            \* the latest event: handler, episode, outcome
    fl_opened,          \* history: ids with an episode-begin and no episode-end since
    fl_done,            \* history: ids of the episode-end events that appended a row
    fl_keysets,         \* history: key sets of the log mappings of those events
    fl_saves,           \* history: save_data calls in a row up to now, counted to 2
    fl_open,            \* history: ids whose episode-begin returned, no episode-end returned since
    til_interval,       \* TrainIntervalLogger.interval
    til_step,           \* TrainIntervalLogger.step
    til_interval_start, \* TrainIntervalLogger.interval_start
    til_train_start,    \* TrainIntervalLogger.train_start
    til_metrics_names,  \* TrainIntervalLogger.metrics_names
    til_metrics,        \* TrainIntervalLogger.metrics
    til_progbar,        \* TrainIntervalLogger.progbar: position and values of its latest update
    til_last,           \* the latest event: handler, outcome
    til_count,          \* history: step-end events that returned
    til_history,        \* history: metric vectors of those events since the interval began
    til_paired          \* history: position in the step-begin/step-end alternation

cl_vars == <<cl_callbacks, cl_calls, cl_last>>

tel_maps == <<tel_episode_start, tel_observations, tel_rewards, tel_actions, tel_metrics>>

tel_vars == <<tel_train_start, tel_metrics_names, tel_episode_start, tel_observations,
              tel_rewards, tel_actions, tel_metrics, tel_step, tel_summary, tel_last,
              tel_received, tel_reward_sum, tel_processed, tel_open>>

fl_vars == <<fl_save_continiously, fl_metrics_names, fl_file, fl_content, fl_metrics,
             fl_starts, fl_data, fl_written, fl_last, fl_opened, fl_done, fl_keysets,
             fl_saves, fl_open>>

til_vars == <<til_interval, til_step, til_interval_start, til_train_start,
              til_metrics_names, til_metrics, til_progbar, til_last, til_count,
              til_history, til_paired>>

vars == <<clock, events, cl_vars, tel_vars, fl_vars, til_vars>>

\* ------------------------------------------------------------------ bounds

MaxCallbacks == 3
MaxIndex == 1
MaxEpisode == 1
MaxClock == 1
MaxEvents == 6
MaxFileEvents == 5
MaxInterval == 2
MaxIntervalEvents == 6
MaxDeliveries == 4

Episodes == 0..MaxEpisode

\* ---------------------------------------------------------------- helpers

\* A number is the pair <<numerator, denominator>> in lowest terms; NaN is
\* the pair with denominator 0.
NaN == <<0, 0>>
Num(n) == <<n, 1>>
IsNaN(v) == v[2] = 0

RECURSIVE Gcd(_, _)
Gcd(a, b) == IF b = 0 THEN a ELSE Gcd(b, a % b)

Frac(n, d) == LET g == Gcd(IF n < 0 THEN -n ELSE n, d) IN <<n \div g, d \div g>>

RECURSIVE Sum(_)
Sum(s) == IF s = <<>> THEN 0 ELSE s[1] + Sum(Tail(s))

RECURSIVE Min(_)
Min(s) == IF Len(s) = 1 THEN s[1]
          ELSE LET m == Min(Tail(s)) IN IF s[1] <= m THEN s[1] ELSE m

RECURSIVE Max(_)
Max(s) == IF Len(s) = 1 THEN s[1]
          ELSE LET m == Max(Tail(s)) IN IF s[1] >= m THEN s[1] ELSE m

\* Column idx of a list of metric vectors, NaN entries left out.
RECURSIVE NonNaN(_, _)
NonNaN(rows, idx) ==
    IF rows = <<>> THEN <<>>
    ELSE IF IsNaN(rows[1][idx]) THEN NonNaN(Tail(rows), idx)
         ELSE <<rows[1][idx][1]>> \o NonNaN(Tail(rows), idx)

\* np.nanmean of column idx: NaN when no entry is a number.
NanMean(rows, idx) ==
    LET xs == NonNaN(rows, idx)
    IN  IF xs = <<>> THEN NaN ELSE Frac(Sum(xs), Len(xs))

\* dict[key] = value and del dict[key]
Put(dict, key, value) ==
    [k \in DOMAIN dict \cup {key} |-> IF k = key THEN value ELSE dict[k]]
Del(dict, key) == [k \in DOMAIN dict \ {key} |-> dict[k]]

EmptyDict == [k \in {} |-> 0]

\* An append that is not keyed by the episode: every open record grows.
AppendTo_EveryKey(dict, key, value) == [k \in DOMAIN dict |-> Append(dict[k], value)]

\* dict[key].append(value)
AppendTo(dict, key, value) == [dict EXCEPT ![key] = Append(@, value)]

\* timeit.default_timer(): the clock does not run backwards, and two
\* readings may coincide.
Timer == { t \in {clock, clock + 1} : t <= MaxClock }

\* self.model.metrics_names of the model being trained, and the value of
\* an attribute that has not been assigned.
MetricsNames == <<"loss">>
Unset == <<"?">>

\* ------------------------------------------------------------- events

NoDispatch == [hook |-> "none", index |-> 0, logs |-> "logs_a", outcome |-> "none"]

NoEvent == [op |-> "none", episode |-> -1, outcome |-> "none"]

Event(op, episode, outcome) == [op |-> op, episode |-> episode, outcome |-> outcome]

\* The step-end log mappings the agent passes for episode e.
StepLogs(e) ==
    { [episode |-> e, observation |-> 0, reward |-> 1, action |-> 0, metrics |-> <<Num(1)>>],
      [episode |-> e, observation |-> 1, reward |-> 2, action |-> 1, metrics |-> <<NaN>>] }

\* ------------------------------------------------------ TrainEpisodeLogger

NoSummary ==
    [step |-> -1, episode |-> -1, duration |-> -1, episode_steps |-> -1,
     episode_reward |-> -1, reward_min |-> -1, reward_max |-> -1, metrics |-> <<>>]

\* TrainEpisodeLogger.on_train_begin
TEL_on_train_begin ==
    /\ events < MaxEvents
    /\ events' = events + 1
    /\ \E t \in Timer :
          /\ clock' = t
          /\ tel_train_start' = t
    /\ tel_metrics_names' = MetricsNames
    /\ tel_last' = Event("on_train_begin", -1, "returned")
    /\ UNCHANGED <<tel_maps, tel_step, tel_summary, tel_received, tel_reward_sum,
                   tel_processed, tel_open, cl_vars, fl_vars, til_vars>>

\* TrainEpisodeLogger.on_train_end
TEL_on_train_end ==
    /\ events < MaxEvents
    /\ events' = events + 1
    /\ \E t \in Timer : clock' = t
    /\ tel_last' = Event("on_train_end", -1,
                         IF tel_train_start = -1 THEN "AttributeError" ELSE "returned")
    /\ UNCHANGED <<tel_train_start, tel_metrics_names, tel_maps, tel_step, tel_summary,
                   tel_received, tel_reward_sum, tel_processed, tel_open, cl_vars, fl_vars, til_vars>>

\* An episode-begin that also restarts the step counter.
TEL_on_episode_begin_ResetStep(episode) ==
    /\ events < MaxEvents
    /\ events' = events + 1
    /\ \E t \in Timer :
          /\ clock' = t
          /\ tel_episode_start' = Put(tel_episode_start, episode, t)
    /\ tel_observations' = Put(tel_observations, episode, <<>>)
    /\ tel_rewards' = Put(tel_rewards, episode, <<>>)
    /\ tel_actions' = Put(tel_actions, episode, <<>>)
    /\ tel_metrics' = Put(tel_metrics, episode, <<>>)
    /\ tel_step' = 0
    /\ tel_last' = Event("on_episode_begin", episode, "returned")
    /\ tel_received' = [tel_received EXCEPT ![episode] = 0]
    /\ tel_reward_sum' = [tel_reward_sum EXCEPT ![episode] = 0]
    /\ tel_open' = tel_open \cup {episode}
    /\ UNCHANGED <<tel_train_start, tel_metrics_names, tel_summary,
                   tel_processed, cl_vars, fl_vars, til_vars>>

\* TrainEpisodeLogger.on_episode_begin
TEL_on_episode_begin(episode) ==
    /\ events < MaxEvents
    /\ events' = events + 1
    /\ \E t \in Timer :
          /\ clock' = t
          /\ tel_episode_start' = Put(tel_episode_start, episode, t)
    /\ tel_observations' = Put(tel_observations, episode, <<>>)
    /\ tel_rewards' = Put(tel_rewards, episode, <<>>)
    /\ tel_actions' = Put(tel_actions, episode, <<>>)
    /\ tel_metrics' = Put(tel_metrics, episode, <<>>)
    /\ tel_last' = Event("on_episode_begin", episode, "returned")
    /\ tel_received' = [tel_received EXCEPT ![episode] = 0]
    /\ tel_reward_sum' = [tel_reward_sum EXCEPT ![episode] = 0]
    /\ tel_open' = tel_open \cup {episode}
    /\ UNCHANGED <<tel_train_start, tel_metrics_names, tel_step, tel_summary,
                   tel_processed, cl_vars, fl_vars, til_vars>>

\* A summary that reads the logger-wide counter and every open record
\* instead of the record of the episode that ended.
TEL_Summary_AllEpisodes(episode, duration) ==
    [step |-> tel_step,
     episode |-> episode + 1,
     duration |-> duration,
     episode_steps |-> tel_step,
     episode_reward |-> Sum([i \in 1..Cardinality(DOMAIN tel_rewards) |->
                              Sum(tel_rewards[CHOOSE e \in DOMAIN tel_rewards :
                                    Cardinality({x \in DOMAIN tel_rewards : x < e}) = i - 1])]),
     reward_min |-> Min(tel_rewards[episode]),
     reward_max |-> Max(tel_rewards[episode]),
     metrics |-> [idx \in 1..Len(tel_metrics_names) |-> NanMean(tel_metrics[episode], idx)]]

\* The format variables of TrainEpisodeLogger.on_episode_end.
TEL_Summary(episode, duration) ==
    [step |-> tel_step,
     episode |-> episode + 1,
     duration |-> duration,
     episode_steps |-> Len(tel_observations[episode]),
     episode_reward |-> Sum(tel_rewards[episode]),
     reward_min |-> Min(tel_rewards[episode]),
     reward_max |-> Max(tel_rewards[episode]),
     metrics |-> [idx \in 1..Len(tel_metrics_names) |-> NanMean(tel_metrics[episode], idx)]]

\* The exception TrainEpisodeLogger.on_episode_end raises, if any, in the
\* order the statements meet it.
TEL_EndOutcome(episode, duration) ==
    IF episode \notin DOMAIN tel_episode_start THEN "KeyError"
    ELSE IF tel_metrics_names = Unset THEN "AttributeError"
    ELSE IF tel_metrics[episode] = <<>> /\ tel_metrics_names # <<>> THEN "IndexError"
    ELSE IF duration = 0 THEN "ZeroDivisionError"
    ELSE IF tel_rewards[episode] = <<>> THEN "ValueError"
    ELSE "returned"

\* TrainEpisodeLogger.on_episode_end
TEL_on_episode_end(episode) ==
    /\ events < MaxEvents
    /\ events' = events + 1
    /\ \E t \in Timer :
          /\ clock' = t
          /\ LET duration == IF episode \in DOMAIN tel_episode_start
                              THEN t - tel_episode_start[episode] ELSE 0
                 outcome == TEL_EndOutcome(episode, duration)
             IN  /\ tel_last' = Event("on_episode_end", episode, outcome)
                 /\ tel_open' = IF outcome = "returned"
                                THEN tel_open \ {episode} ELSE tel_open
                 /\ IF outcome = "returned"
                    THEN /\ tel_summary' = TEL_Summary(episode, duration)
                         /\ tel_episode_start' = Del(tel_episode_start, episode)
                         /\ tel_observations' = Del(tel_observations, episode)
                         /\ tel_rewards' = Del(tel_rewards, episode)
                         /\ tel_actions' = Del(tel_actions, episode)
                         /\ tel_metrics' = Del(tel_metrics, episode)
                    ELSE UNCHANGED <<tel_summary, tel_maps>>
    /\ UNCHANGED <<tel_train_start, tel_metrics_names, tel_step, tel_received,
                   tel_reward_sum, tel_processed, cl_vars, fl_vars, til_vars>>

\* A step-end that makes the record of an episode it does not know.
TEL_on_step_end_MakesRecord(logs) ==
    LET episode == logs.episode
        Rec(dict, value) == IF episode \in DOMAIN dict
                            THEN AppendTo(dict, episode, value)
                            ELSE Put(dict, episode, <<value>>)
    IN  /\ events < MaxEvents
        /\ events' = events + 1
        /\ tel_received' = [tel_received EXCEPT ![episode] = @ + 1]
        /\ tel_reward_sum' = [tel_reward_sum EXCEPT ![episode] = @ + logs.reward]
        /\ tel_observations' = Rec(tel_observations, logs.observation)
        /\ tel_rewards' = Rec(tel_rewards, logs.reward)
        /\ tel_actions' = Rec(tel_actions, logs.action)
        /\ tel_metrics' = Rec(tel_metrics, logs.metrics)
        /\ tel_episode_start' = IF episode \in DOMAIN tel_episode_start
                                 THEN tel_episode_start
                                 ELSE Put(tel_episode_start, episode, clock)
        /\ tel_step' = tel_step + 1
        /\ tel_processed' = tel_processed + 1
        /\ tel_last' = Event("on_step_end", episode, "returned")
        /\ UNCHANGED <<clock, tel_train_start, tel_metrics_names, tel_summary, tel_open,
                       cl_vars, fl_vars, til_vars>>

\* TrainEpisodeLogger.on_step_end
TEL_on_step_end(logs) ==
    LET episode == logs.episode
    IN  /\ events < MaxEvents
        /\ events' = events + 1
        /\ tel_received' = [tel_received EXCEPT ![episode] = @ + 1]
        /\ tel_reward_sum' = [tel_reward_sum EXCEPT ![episode] = @ + logs.reward]
        /\ IF episode \in DOMAIN tel_observations
           THEN /\ tel_observations' = AppendTo(tel_observations, episode, logs.observation)
                /\ tel_rewards' = AppendTo(tel_rewards, episode, logs.reward)
                /\ tel_actions' = AppendTo(tel_actions, episode, logs.action)
                /\ tel_metrics' = AppendTo(tel_metrics, episode, logs.metrics)
                /\ tel_step' = tel_step + 1
                /\ tel_processed' = tel_processed + 1
                /\ tel_last' = Event("on_step_end", episode, "returned")
           ELSE /\ tel_last' = Event("on_step_end", episode, "KeyError")
                /\ UNCHANGED <<tel_observations, tel_rewards, tel_actions, tel_metrics,
                               tel_step, tel_processed>>
        /\ UNCHANGED <<clock, tel_train_start, tel_metrics_names, tel_episode_start,
                       tel_summary, tel_open, cl_vars, fl_vars, til_vars>>

\* TrainEpisodeLogger.__init__
InitEpisodeLogger ==
    /\ tel_train_start = -1
    /\ tel_metrics_names = Unset
    /\ tel_episode_start = EmptyDict
    /\ tel_observations = EmptyDict
    /\ tel_rewards = EmptyDict
    /\ tel_actions = EmptyDict
    /\ tel_metrics = EmptyDict
    /\ tel_step = 0
    /\ tel_summary = NoSummary
    /\ tel_last = NoEvent
    /\ tel_received = [e \in Episodes |-> 0]
    /\ tel_reward_sum = [e \in Episodes |-> 0]
    /\ tel_processed = 0
    /\ tel_open = {}

NextEpisodeLogger ==
    \/ TEL_on_train_begin
    \/ TEL_on_train_end
    \/ \E episode \in Episodes : TEL_on_episode_begin(episode)
    \/ \E episode \in Episodes : TEL_on_episode_end(episode)
    \/ \E episode \in Episodes : \E logs \in StepLogs(episode) : TEL_on_step_end(logs)

\* ---------------------------------------------------------------- FileLogger

\* The episode-end log mappings: the agent's, an empty one, one with the
\* key `episode` and one with the name of a metric as key.
EpisodeLogs ==
    { ("episode_reward" :> Num(3)),
      EmptyDict,
      ("episode" :> Num(9)),
      ("loss" :> Num(5)) }

\* The order in which a dict of these keys is iterated and serialized.
KeyOrder == <<"duration", "episode", "episode_reward", "loss">>

\* list(dict.iteritems()), from position i of KeyOrder on
RECURSIVE Items(_, _)
Items(dict, i) ==
    IF i > Len(KeyOrder) THEN <<>>
    ELSE IF KeyOrder[i] \in DOMAIN dict
         THEN <<<<KeyOrder[i], dict[KeyOrder[i]]>>>> \o Items(dict, i + 1)
         ELSE Items(dict, i + 1)

\* list(zip(names, values))
Zip(names, values) ==
    [i \in 1..(IF Len(names) <= Len(values) THEN Len(names) ELSE Len(values)) |->
        <<names[i], values[i]>>]

Less(a, b) == a[1] * b[2] < b[1] * a[2]

\* A sort order that leaves the rows as they are.
ArgSort_Unsorted(s) == [k \in 1..Len(s) |-> k]

\* np.argsort(s): the positions of s in ascending order of value; the
\* lists sorted here are short enough for the insertion sort, which keeps
\* equal values in their order.
ArgSort(s) ==
    LET Rank(i) == 1 + Cardinality({ j \in 1..Len(s) :
                                       Less(s[j], s[i]) \/ (s[j] = s[i] /\ j < i) })
    IN  [k \in 1..Len(s) |-> CHOOSE i \in 1..Len(s) : Rank(i) = k]

\* json.dump(table): the keys in iteration order, each with its values.
RECURSIVE Serialize(_, _)
Serialize(table, i) ==
    IF i > Len(KeyOrder) THEN <<"}">>
    ELSE IF KeyOrder[i] \in DOMAIN table
         THEN <<KeyOrder[i], "[">>
              \o [k \in 1..Len(table[KeyOrder[i]]) |-> ToString(table[KeyOrder[i]][k])]
              \o <<"]">> \o Serialize(table, i + 1)
         ELSE Serialize(table, i + 1)

\* A write that does not seek to the start of the file first.
Overwrite_NoSeek(old, new) == old \o new

\* file.seek(0) and a write of new over the content old
Overwrite(old, new) == new \o SubSeq(old, Len(new) + 1, Len(old))

\* The loop of on_episode_end that stores every pair as the value of its
\* key instead of appending it.
RECURSIVE AppendPairs_Assign(_, _)
AppendPairs_Assign(data, pairs) ==
    IF pairs = <<>> THEN data
    ELSE AppendPairs_Assign(Put(data, pairs[1][1], <<pairs[1][2]>>), Tail(pairs))

\* A loop that starts a new table at every episode-end.
AppendPairs_NewTable(data, pairs) ==
    [key \in { pairs[k][1] : k \in 1..Len(pairs) } |->
        <<pairs[CHOOSE k \in 1..Len(pairs) : pairs[k][1] = key][2]>>]

\* for key, value in data: self.data[key].append(value), creating the list
RECURSIVE AppendPairs(_, _)
AppendPairs(data, pairs) ==
    IF pairs = <<>> THEN data
    ELSE LET key == pairs[1][1]
             value == pairs[1][2]
             column == IF key \in DOMAIN data THEN data[key] ELSE <<>>
         IN  AppendPairs(Put(data, key, Append(column, value)), Tail(pairs))

\* A save that sorts the `episode` column and writes the other columns in
\* the order of the table in memory.
FL_save_SortEpisodeOnly(data) ==
    IF DOMAIN data = {}
    THEN [outcome |-> "returned", content |-> fl_content, written |-> fl_written]
    ELSE IF "episode" \notin DOMAIN data
    THEN [outcome |-> "AssertionError", content |-> fl_content, written |-> fl_written]
    ELSE LET sorted_indexes == ArgSort(data["episode"])
             sorted_data == [key \in DOMAIN data |->
                               [k \in 1..Len(sorted_indexes) |->
                                  IF key = "episode" THEN data[key][sorted_indexes[k]]
                                  ELSE data[key][k]]]
         IN  IF \E key \in DOMAIN data : Len(data[key]) # Len(sorted_indexes)
             THEN [outcome |-> "AssertionError", content |-> fl_content,
                   written |-> fl_written]
             ELSE IF fl_file # "open"
             THEN [outcome |-> "ValueError", content |-> fl_content, written |-> fl_written]
             ELSE [outcome |-> "returned",
                   content |-> Overwrite(fl_content, <<"{">> \o Serialize(sorted_data, 1)),
                   written |-> sorted_data]

\* FileLogger.save_data on the table data: the exception raised, if any,
\* the content of the file afterwards and the table written last.
FL_save(data) ==
    IF DOMAIN data = {}
    THEN [outcome |-> "returned", content |-> fl_content, written |-> fl_written]
    ELSE IF "episode" \notin DOMAIN data
    THEN [outcome |-> "AssertionError", content |-> fl_content, written |-> fl_written]
    ELSE LET sorted_indexes == ArgSort(data["episode"])
             sorted_data == [key \in DOMAIN data |->
                               [k \in 1..Len(sorted_indexes) |-> data[key][sorted_indexes[k]]]]
         IN  IF \E key \in DOMAIN data : Len(data[key]) # Len(sorted_indexes)
             THEN [outcome |-> "AssertionError", content |-> fl_content,
                   written |-> fl_written]
             ELSE IF fl_file # "open"
             THEN [outcome |-> "ValueError", content |-> fl_content, written |-> fl_written]
             ELSE [outcome |-> "returned",
                   content |-> Overwrite(fl_content, <<"{">> \o Serialize(sorted_data, 1)),
                   written |-> sorted_data]

\* FileLogger.save_data
FL_save_data ==
    /\ events < MaxFileEvents
    /\ events' = events + 1
    /\ LET r == FL_save(fl_data)
       IN  /\ fl_content' = r.content
           /\ fl_written' = r.written
           /\ fl_last' = Event("save_data", -1, r.outcome)
    /\ fl_saves' = IF fl_saves = 0 THEN 1 ELSE 2
    /\ UNCHANGED <<clock, fl_save_continiously, fl_metrics_names, fl_file, fl_metrics,
                   fl_starts, fl_data, fl_opened, fl_done, fl_keysets, fl_open, cl_vars, tel_vars, til_vars>>

\* FileLogger.on_train_begin
FL_on_train_begin ==
    /\ events < MaxFileEvents
    /\ events' = events + 1
    /\ fl_metrics_names' = MetricsNames
    /\ fl_file' = "open"
    /\ fl_content' = <<>>
    /\ fl_last' = Event("on_train_begin", -1, "returned")
    /\ fl_saves' = 0
    /\ UNCHANGED <<clock, fl_save_continiously, fl_metrics, fl_starts, fl_data, fl_written,
                   fl_opened, fl_done, fl_keysets, fl_open, cl_vars, tel_vars, til_vars>>

\* A train-end that closes the file only on the path that wrote it.
FL_on_train_end_CloseAfterWrite ==
    /\ events < MaxFileEvents
    /\ events' = events + 1
    /\ fl_saves' = 1
    /\ LET r == FL_save(fl_data)
       IN  /\ fl_content' = r.content
           /\ fl_written' = r.written
           /\ IF r.outcome # "returned"
              THEN /\ fl_last' = Event("on_train_end", -1, r.outcome)
                   /\ fl_file' = fl_file
              ELSE IF fl_file = "unset"
              THEN /\ fl_last' = Event("on_train_end", -1, "AttributeError")
                   /\ fl_file' = fl_file
              ELSE /\ fl_last' = Event("on_train_end", -1, "returned")
                   /\ fl_file' = IF DOMAIN fl_data = {} THEN fl_file ELSE "closed"
    /\ UNCHANGED <<clock, fl_save_continiously, fl_metrics_names, fl_metrics, fl_starts,
                   fl_data, fl_opened, fl_done, fl_keysets, fl_open, cl_vars, tel_vars, til_vars>>

\* FileLogger.on_train_end
FL_on_train_end ==
    /\ events < MaxFileEvents
    /\ events' = events + 1
    /\ fl_saves' = 1
    /\ LET r == FL_save(fl_data)
       IN  /\ fl_content' = r.content
           /\ fl_written' = r.written
           /\ IF r.outcome # "returned"
              THEN /\ fl_last' = Event("on_train_end", -1, r.outcome)
                   /\ fl_file' = fl_file
              ELSE IF fl_file = "unset"
              THEN /\ fl_last' = Event("on_train_end", -1, "AttributeError")
                   /\ fl_file' = fl_file
              ELSE /\ fl_last' = Event("on_train_end", -1, "returned")
                   /\ fl_file' = "closed"
    /\ UNCHANGED <<clock, fl_save_continiously, fl_metrics_names, fl_metrics, fl_starts,
                   fl_data, fl_opened, fl_done, fl_keysets, fl_open, cl_vars, tel_vars, til_vars>>

\* An episode-begin without the two assertions.
FL_on_episode_begin_NoAssert(episode) ==
    /\ events < MaxFileEvents
    /\ events' = events + 1
    /\ fl_opened' = fl_opened \cup {episode}
    /\ fl_saves' = 0
    /\ \E t \in Timer :
          /\ clock' = t
          /\ fl_metrics' = Put(fl_metrics, episode, <<>>)
          /\ fl_starts' = Put(fl_starts, episode, t)
          /\ fl_last' = Event("on_episode_begin", episode, "returned")
          /\ fl_open' = fl_open \cup {episode}
    /\ UNCHANGED <<fl_save_continiously, fl_metrics_names, fl_file, fl_content, fl_data,
                   fl_written, fl_done, fl_keysets, cl_vars, tel_vars, til_vars>>

\* FileLogger.on_episode_begin
FL_on_episode_begin(episode) ==
    /\ events < MaxFileEvents
    /\ events' = events + 1
    /\ fl_opened' = fl_opened \cup {episode}
    /\ fl_saves' = 0
    /\ IF episode \in DOMAIN fl_metrics \/ episode \in DOMAIN fl_starts
       THEN /\ fl_last' = Event("on_episode_begin", episode, "AssertionError")
            /\ UNCHANGED <<clock, fl_metrics, fl_starts, fl_open>>
       ELSE \E t \in Timer :
              /\ clock' = t
              /\ fl_metrics' = Put(fl_metrics, episode, <<>>)
              /\ fl_starts' = Put(fl_starts, episode, t)
              /\ fl_last' = Event("on_episode_begin", episode, "returned")
              /\ fl_open' = fl_open \cup {episode}
    /\ UNCHANGED <<fl_save_continiously, fl_metrics_names, fl_file, fl_content, fl_data,
                   fl_written, fl_done, fl_keysets, cl_vars, tel_vars, til_vars>>

\* np.isnan(metrics).all()
AllNaN(rows) == \A i \in 1..Len(rows) : \A idx \in 1..Len(rows[i]) : IsNaN(rows[i][idx])

\* The mean_metrics of FileLogger.on_episode_end.
FL_MeanMetrics(metrics) ==
    IF AllNaN(metrics)
    THEN [idx \in 1..Len(fl_metrics_names) |-> NaN]
    ELSE [idx \in 1..Len(metrics[1]) |-> NanMean(metrics, idx)]

\* An episode-end that saves before it appends the row of the episode.
FL_on_episode_end_SaveBeforeAppend(episode, logs) ==
    /\ events < MaxFileEvents
    /\ events' = events + 1
    /\ fl_opened' = fl_opened \ {episode}
    /\ \E t \in Timer :
          /\ clock' = t
          /\ IF episode \notin DOMAIN fl_starts
             THEN /\ fl_last' = Event("on_episode_end", episode, "KeyError")
                  /\ fl_saves' = 0
                  /\ UNCHANGED <<fl_content, fl_metrics, fl_starts, fl_data, fl_written,
                                 fl_done, fl_keysets, fl_open>>
             ELSE IF fl_metrics_names = Unset
             THEN /\ fl_last' = Event("on_episode_end", episode, "AttributeError")
                  /\ fl_saves' = 0
                  /\ UNCHANGED <<fl_content, fl_metrics, fl_starts, fl_data, fl_written,
                                 fl_done, fl_keysets, fl_open>>
             ELSE LET duration == t - fl_starts[episode]
                      mean_metrics == FL_MeanMetrics(fl_metrics[episode])
                      data == Zip(fl_metrics_names, mean_metrics)
                              \o Items(logs, 1)
                              \o <<<<"episode", Num(episode)>>, <<"duration", Num(duration)>>>>
                      appended == AppendPairs(fl_data, data)
                      r == IF fl_save_continiously
                           THEN FL_save(fl_data)
                           ELSE [outcome |-> "returned", content |-> fl_content,
                                 written |-> fl_written]
                  IN  IF Len(mean_metrics) # Len(fl_metrics_names)
                      THEN /\ fl_last' = Event("on_episode_end", episode, "AssertionError")
                           /\ fl_saves' = 0
                           /\ UNCHANGED <<fl_content, fl_metrics, fl_starts, fl_data,
                                          fl_written, fl_done, fl_keysets, fl_open>>
                      ELSE /\ fl_data' = appended
                           /\ fl_done' = Append(fl_done, episode)
                           /\ fl_keysets' = fl_keysets \cup {DOMAIN logs}
                           /\ fl_content' = r.content
                           /\ fl_written' = r.written
                           /\ fl_last' = Event("on_episode_end", episode, r.outcome)
                           /\ fl_saves' = IF fl_save_continiously THEN 1 ELSE 0
                           /\ IF r.outcome = "returned"
                              THEN /\ fl_metrics' = Del(fl_metrics, episode)
                                   /\ fl_starts' = Del(fl_starts, episode)
                                   /\ fl_open' = fl_open \ {episode}
                              ELSE UNCHANGED <<fl_metrics, fl_starts, fl_open>>
    /\ UNCHANGED <<fl_save_continiously, fl_metrics_names, fl_file, cl_vars, tel_vars, til_vars>>

\* FileLogger.on_episode_end
FL_on_episode_end(episode, logs) ==
    /\ events < MaxFileEvents
    /\ events' = events + 1
    /\ fl_opened' = fl_opened \ {episode}
    /\ \E t \in Timer :
          /\ clock' = t
          /\ IF episode \notin DOMAIN fl_starts
             THEN /\ fl_last' = Event("on_episode_end", episode, "KeyError")
                  /\ fl_saves' = 0
                  /\ UNCHANGED <<fl_content, fl_metrics, fl_starts, fl_data, fl_written,
                                 fl_done, fl_keysets, fl_open>>
             ELSE IF fl_metrics_names = Unset
             THEN /\ fl_last' = Event("on_episode_end", episode, "AttributeError")
                  /\ fl_saves' = 0
                  /\ UNCHANGED <<fl_content, fl_metrics, fl_starts, fl_data, fl_written,
                                 fl_done, fl_keysets, fl_open>>
             ELSE LET duration == t - fl_starts[episode]
                      mean_metrics == FL_MeanMetrics(fl_metrics[episode])
                      data == Zip(fl_metrics_names, mean_metrics)
                              \o Items(logs, 1)
                              \o <<<<"episode", Num(episode)>>, <<"duration", Num(duration)>>>>
                      appended == AppendPairs(fl_data, data)
                      r == IF fl_save_continiously
                           THEN FL_save(appended)
                           ELSE [outcome |-> "returned", content |-> fl_content,
                                 written |-> fl_written]
                  IN  IF Len(mean_metrics) # Len(fl_metrics_names)
                      THEN /\ fl_last' = Event("on_episode_end", episode, "AssertionError")
                           /\ fl_saves' = 0
                           /\ UNCHANGED <<fl_content, fl_metrics, fl_starts, fl_data,
                                          fl_written, fl_done, fl_keysets, fl_open>>
                      ELSE /\ fl_data' = appended
                           /\ fl_done' = Append(fl_done, episode)
                           /\ fl_keysets' = fl_keysets \cup {DOMAIN logs}
                           /\ fl_content' = r.content
                           /\ fl_written' = r.written
                           /\ fl_last' = Event("on_episode_end", episode, r.outcome)
                           /\ fl_saves' = IF fl_save_continiously THEN 1 ELSE 0
                           /\ IF r.outcome = "returned"
                              THEN /\ fl_metrics' = Del(fl_metrics, episode)
                                   /\ fl_starts' = Del(fl_starts, episode)
                                   /\ fl_open' = fl_open \ {episode}
                              ELSE UNCHANGED <<fl_metrics, fl_starts, fl_open>>
    /\ UNCHANGED <<fl_save_continiously, fl_metrics_names, fl_file, cl_vars, tel_vars, til_vars>>

\* A step-end that appends to the buffer of every open episode.
FL_on_step_end_EveryRecord(logs) ==
    /\ events < MaxFileEvents
    /\ events' = events + 1
    /\ fl_saves' = 0
    /\ IF logs.episode \in DOMAIN fl_metrics
       THEN /\ fl_metrics' = [k \in DOMAIN fl_metrics |-> Append(fl_metrics[k], logs.metrics)]
            /\ fl_last' = Event("on_step_end", logs.episode, "returned")
       ELSE /\ fl_metrics' = fl_metrics
            /\ fl_last' = Event("on_step_end", logs.episode, "KeyError")
    /\ UNCHANGED <<clock, fl_save_continiously, fl_metrics_names, fl_file, fl_content,
                   fl_starts, fl_data, fl_written, fl_opened, fl_done, fl_keysets,
                   fl_open, cl_vars, tel_vars, til_vars>>

\* FileLogger.on_step_end
FL_on_step_end(logs) ==
    /\ events < MaxFileEvents
    /\ events' = events + 1
    /\ fl_saves' = 0
    /\ IF logs.episode \in DOMAIN fl_metrics
       THEN /\ fl_metrics' = AppendTo(fl_metrics, logs.episode, logs.metrics)
            /\ fl_last' = Event("on_step_end", logs.episode, "returned")
       ELSE /\ fl_metrics' = fl_metrics
            /\ fl_last' = Event("on_step_end", logs.episode, "KeyError")
    /\ UNCHANGED <<clock, fl_save_continiously, fl_metrics_names, fl_file, fl_content,
                   fl_starts, fl_data, fl_written, fl_opened, fl_done, fl_keysets,
                   fl_open, cl_vars, tel_vars, til_vars>>

\* FileLogger.__init__
InitFileLogger ==
    /\ fl_save_continiously \in BOOLEAN
    /\ fl_metrics_names = Unset
    /\ fl_file = "unset"
    /\ fl_content = <<>>
    /\ fl_metrics = EmptyDict
    /\ fl_starts = EmptyDict
    /\ fl_data = EmptyDict
    /\ fl_written = EmptyDict
    /\ fl_last = NoEvent
    /\ fl_opened = {}
    /\ fl_done = <<>>
    /\ fl_keysets = {}
    /\ fl_saves = 0
    /\ fl_open = {}

NextFileLogger ==
    \/ FL_on_train_begin
    \/ FL_on_train_end
    \/ \E episode \in Episodes : FL_on_episode_begin(episode)
    \/ \E episode \in Episodes : \E logs \in EpisodeLogs : FL_on_episode_end(episode, logs)
    \/ \E episode \in Episodes : \E logs \in StepLogs(episode) : FL_on_step_end(logs)
    \/ FL_save_data

\* ------------------------------------------------------ TrainIntervalLogger

\* self.model.metrics_names of the model the interval logger watches.
IntervalMetricsNames == <<"loss", "mean_q">>

\* The step-end log mappings the agent passes: a reward and one value per
\* metric, any of which may be NaN.
IntervalStepLogs ==
    { [reward |-> 1, metrics |-> m] :
        m \in { <<Num(1), NaN>>, <<Num(2), Num(4)>>, <<NaN, Num(3)>>, <<NaN, NaN>> } }

\* Progbar(target=self.interval) before its first update.  The values of a
\* progress bar are the (name, value) pairs its latest update was given.
NewProgbar == [current |-> 0, values |-> <<>>]

\* TrainIntervalLogger.reset
TIL_reset ==
    /\ \E t \in Timer :
          /\ clock' = t
          /\ til_interval_start' = t
    /\ til_progbar' = NewProgbar
    /\ til_metrics' = <<>>

\* The position in the alternation of step-begin and step-end after op.
TIL_Alternation(op) ==
    IF op = "on_step_begin"
    THEN (IF til_paired = "idle" THEN "begun" ELSE "broken")
    ELSE (IF til_paired = "begun" THEN "idle" ELSE "broken")

\* TrainIntervalLogger.on_train_begin
TIL_on_train_begin ==
    /\ events < MaxIntervalEvents
    /\ events' = events + 1
    /\ \E t \in Timer :
          /\ clock' = t
          /\ til_train_start' = t
    /\ til_metrics_names' = IntervalMetricsNames
    /\ til_last' = Event("on_train_begin", -1, "returned")
    /\ UNCHANGED <<til_interval, til_step, til_interval_start, til_metrics, til_progbar,
                   til_count, til_history, til_paired, cl_vars, tel_vars, fl_vars>>

\* TrainIntervalLogger.on_train_end
TIL_on_train_end ==
    /\ events < MaxIntervalEvents
    /\ events' = events + 1
    /\ \E t \in Timer : clock' = t
    /\ til_last' = Event("on_train_end", -1,
                         IF til_train_start = -1 THEN "AttributeError" ELSE "returned")
    /\ UNCHANGED <<til_interval, til_step, til_interval_start, til_train_start,
                   til_metrics_names, til_metrics, til_progbar, til_count, til_history,
                   til_paired, cl_vars, tel_vars, fl_vars>>

\* A step-begin that starts a new interval at every step.
TIL_on_step_begin_ResetEveryStep ==
    /\ events < MaxIntervalEvents
    /\ events' = events + 1
    /\ til_last' = Event("on_step_begin", -1, "returned")
    /\ til_paired' = TIL_Alternation("on_step_begin")
    /\ til_history' = IF til_count % til_interval = 0 THEN <<>> ELSE til_history
    /\ TIL_reset
    /\ UNCHANGED <<til_interval, til_step, til_train_start, til_metrics_names, til_count,
                   cl_vars, tel_vars, fl_vars>>

\* TrainIntervalLogger.on_step_begin
TIL_on_step_begin ==
    /\ events < MaxIntervalEvents
    /\ events' = events + 1
    /\ til_last' = Event("on_step_begin", -1, "returned")
    /\ til_paired' = TIL_Alternation("on_step_begin")
    /\ til_history' = IF til_count % til_interval = 0 THEN <<>> ELSE til_history
    /\ IF til_step % til_interval = 0
       THEN TIL_reset
       ELSE UNCHANGED <<clock, til_interval_start, til_progbar, til_metrics>>
    /\ UNCHANGED <<til_interval, til_step, til_train_start, til_metrics_names, til_count,
                   cl_vars, tel_vars, fl_vars>>

\* A substitution that takes the latest number of the metric instead of
\* the mean of its numbers.
TIL_Filtered_LatestValue(history, metrics) ==
    [idx \in 1..Len(metrics) |->
        IF ~IsNaN(metrics[idx]) THEN metrics[idx]
        ELSE IF Len(history) > 0 /\ ~AllNaN(history)
             THEN (IF NonNaN(history, idx) = <<>> THEN NaN
                   ELSE Num(NonNaN(history, idx)[Len(NonNaN(history, idx))]))
             ELSE NaN]

\* filtered_metrics of on_step_end: a value that is NaN is replaced by
\* np.nanmean of its column of the history, when the history holds a number.
TIL_Filtered(history, metrics) ==
    [idx \in 1..Len(metrics) |->
        IF ~IsNaN(metrics[idx]) THEN metrics[idx]
        ELSE IF Len(history) > 0 /\ ~AllNaN(history) THEN NanMean(history, idx)
             ELSE NaN]

\* on_step_end computes `means`, and asserts its shape.
TIL_NeedsMeans(logs) ==
    /\ \E idx \in 1..Len(logs.metrics) : IsNaN(logs.metrics[idx])
    /\ Len(til_metrics) > 0
    /\ ~AllNaN(til_metrics)

\* The exception TrainIntervalLogger.on_step_end raises, if any, in the
\* order the statements meet it.
TIL_StepOutcome(logs) ==
    LET filtered == TIL_Filtered(til_metrics, logs.metrics)
    IN  IF TIL_NeedsMeans(logs) /\ til_metrics_names = Unset THEN "AttributeError"
        ELSE IF TIL_NeedsMeans(logs) /\ Len(til_metrics[1]) # Len(til_metrics_names)
        THEN "AssertionError"
        ELSE IF (\A idx \in 1..Len(filtered) : ~IsNaN(filtered[idx]))
                /\ til_metrics_names = Unset
        THEN "AttributeError"
        ELSE "returned"

\* TrainIntervalLogger.on_step_end
TIL_on_step_end(logs) ==
    LET filtered == TIL_Filtered(til_metrics, logs.metrics)
        outcome == TIL_StepOutcome(logs)
        values == <<<<"reward", Num(logs.reward)>>>>
                  \o (IF \A idx \in 1..Len(filtered) : ~IsNaN(filtered[idx])
                      THEN Zip(til_metrics_names, filtered) ELSE <<>>)
    IN  /\ events < MaxIntervalEvents
        /\ events' = events + 1
        /\ til_last' = Event("on_step_end", -1, outcome)
        /\ til_paired' = TIL_Alternation("on_step_end")
        /\ IF outcome = "returned"
           THEN /\ til_progbar' = [current |-> (til_step % til_interval) + 1,
                                   values |-> values]
                /\ til_step' = til_step + 1
                /\ til_metrics' = Append(til_metrics, logs.metrics)
                /\ til_count' = til_count + 1
                /\ til_history' = Append(til_history, logs.metrics)
           ELSE UNCHANGED <<til_progbar, til_step, til_metrics, til_count, til_history>>
        /\ UNCHANGED <<clock, til_interval, til_interval_start, til_train_start,
                       til_metrics_names, cl_vars, tel_vars, fl_vars>>

\* TrainIntervalLogger.__init__
InitIntervalLogger ==
    /\ til_interval \in 1..MaxInterval
    /\ til_step = 0
    /\ til_interval_start = 0
    /\ til_train_start = -1
    /\ til_metrics_names = Unset
    /\ til_metrics = <<>>
    /\ til_progbar = NewProgbar
    /\ til_last = NoEvent
    /\ til_count = 0
    /\ til_history = <<>>
    /\ til_paired = "idle"

NextIntervalLogger ==
    \/ TIL_on_train_begin
    \/ TIL_on_train_end
    \/ TIL_on_step_begin
    \/ \E logs \in IntervalStepLogs : TIL_on_step_end(logs)

\* ------------------------------------------------------------- dispatcher

PreferredHooks == {"on_episode_begin", "on_episode_end", "on_step_begin", "on_step_end"}
LegacyHooks == {"on_epoch_begin", "on_epoch_end", "on_batch_begin", "on_batch_end"}

\* The shapes of object a CallbackList can hold: the attributes that are
\* callable, the attributes that exist but are not callable, and whether
\* the object's hooks raise when invoked.
CallbackShapes ==
    { [callable |-> PreferredHooks \cup LegacyHooks, noncallable |-> {}, raises |-> FALSE],
      [callable |-> LegacyHooks, noncallable |-> {}, raises |-> FALSE],
      [callable |-> PreferredHooks, noncallable |-> {}, raises |-> FALSE],
      [callable |-> {"on_episode_begin", "on_epoch_end", "on_batch_begin", "on_step_end"},
       noncallable |-> {}, raises |-> FALSE],
      [callable |-> LegacyHooks, noncallable |-> PreferredHooks, raises |-> FALSE],
      [callable |-> {}, noncallable |-> LegacyHooks, raises |-> FALSE],
      [callable |-> {}, noncallable |-> {}, raises |-> FALSE],
      [callable |-> PreferredHooks \cup LegacyHooks, noncallable |-> {}, raises |-> TRUE] }

CallbackLists == UNION { [1..n -> CallbackShapes] : n \in 0..MaxCallbacks }

DispatchLogs == { "logs_a", "logs_b" }

\* callable(getattr(callback, name, None))
HasCallable(callback, name) == name \in callback.callable

\* A dispatcher that guards the legacy call with an attribute test and
\* passes over a callback that has neither hook.
RECURSIVE DispatchFrom_SkipMissing(_, _, _, _, _, _)
DispatchFrom_SkipMissing(i, acc, preferred, legacy, index, logs) ==
    IF i > Len(cl_callbacks)
    THEN [calls |-> acc, outcome |-> "returned"]
    ELSE LET callback == cl_callbacks[i]
             hook == IF HasCallable(callback, preferred) THEN preferred ELSE legacy
             call == [callback |-> i, hook |-> hook, index |-> index, logs |-> logs]
         IN  IF hook \in callback.callable
             THEN IF callback.raises
                  THEN [calls |-> Append(acc, call), outcome |-> "HookError"]
                  ELSE DispatchFrom_SkipMissing(i + 1, Append(acc, call), preferred, legacy,
                                                index, logs)
             ELSE DispatchFrom_SkipMissing(i + 1, acc, preferred, legacy, index, logs)

\* One pass of `for callback in self.callbacks`, from position i on, with
\* the invocations made so far in acc.
RECURSIVE DispatchFrom(_, _, _, _, _, _)
DispatchFrom(i, acc, preferred, legacy, index, logs) ==
    IF i > Len(cl_callbacks)
    THEN [calls |-> acc, outcome |-> "returned"]
    ELSE LET callback == cl_callbacks[i]
             hook == IF HasCallable(callback, preferred) THEN preferred ELSE legacy
             call == [callback |-> i, hook |-> hook, index |-> index, logs |-> logs]
         IN  IF hook \in callback.callable
             THEN IF callback.raises
                  THEN [calls |-> Append(acc, call), outcome |-> "HookError"]
                  ELSE DispatchFrom(i + 1, Append(acc, call), preferred, legacy, index, logs)
             ELSE IF hook \in callback.noncallable
                  THEN [calls |-> acc, outcome |-> "TypeError"]
                  ELSE [calls |-> acc, outcome |-> "AttributeError"]

\* A dispatcher whose attribute test is inverted: it probes the legacy
\* hook and falls back to the preferred one.
Dispatch_LegacyFirst(preferred, legacy, index, logs) ==
    LET r == DispatchFrom(1, <<>>, legacy, preferred, index, logs)
    IN  /\ cl_calls' = r.calls
        /\ cl_last' = [hook |-> preferred, index |-> index, logs |-> logs,
                       outcome |-> r.outcome]
        /\ UNCHANGED <<clock, events, cl_callbacks, tel_vars, fl_vars, til_vars>>

Dispatch(preferred, legacy, index, logs) ==
    LET r == DispatchFrom(1, <<>>, preferred, legacy, index, logs)
    IN  /\ cl_calls' = r.calls
        /\ cl_last' = [hook |-> preferred, index |-> index, logs |-> logs,
                       outcome |-> r.outcome]
        /\ UNCHANGED <<clock, events, cl_callbacks, tel_vars, fl_vars, til_vars>>

CL_on_episode_begin ==
    \E episode \in 0..MaxIndex, logs \in DispatchLogs :
        Dispatch("on_episode_begin", "on_epoch_begin", episode, logs)

CL_on_episode_end ==
    \E episode \in 0..MaxIndex, logs \in DispatchLogs :
        Dispatch("on_episode_end", "on_epoch_end", episode, logs)

CL_on_step_begin ==
    \E step \in 0..MaxIndex, logs \in DispatchLogs :
        Dispatch("on_step_begin", "on_batch_begin", step, logs)

CL_on_step_end ==
    \E step \in 0..MaxIndex, logs \in DispatchLogs :
        Dispatch("on_step_end", "on_batch_end", step, logs)

NextDispatch ==
    \/ CL_on_episode_begin
    \/ CL_on_episode_end
    \/ CL_on_step_begin
    \/ CL_on_step_end

\* ---------------------------------------------------------- specifications

\* No callback is registered with a CallbackList.
NoDispatcher ==
    /\ cl_callbacks = <<>>
    /\ cl_calls = <<>>
    /\ cl_last = NoDispatch

\* No FileLogger takes part.
NoFileLogger ==
    /\ fl_save_continiously = FALSE
    /\ fl_metrics_names = Unset
    /\ fl_file = "unset"
    /\ fl_content = <<>>
    /\ fl_metrics = EmptyDict
    /\ fl_starts = EmptyDict
    /\ fl_data = EmptyDict
    /\ fl_written = EmptyDict
    /\ fl_last = NoEvent
    /\ fl_opened = {}
    /\ fl_done = <<>>
    /\ fl_keysets = {}
    /\ fl_saves = 0
    /\ fl_open = {}

\* No TrainEpisodeLogger takes part.
NoEpisodeLogger == InitEpisodeLogger

\* No TrainIntervalLogger takes part.
NoIntervalLogger ==
    /\ til_interval = 1
    /\ til_step = 0
    /\ til_interval_start = 0
    /\ til_train_start = -1
    /\ til_metrics_names = Unset
    /\ til_metrics = <<>>
    /\ til_progbar = NewProgbar
    /\ til_last = NoEvent
    /\ til_count = 0
    /\ til_history = <<>>
    /\ til_paired = "idle"

InitDispatch ==
    /\ clock = 0
    /\ events = 0
    /\ cl_callbacks \in CallbackLists
    /\ cl_calls = <<>>
    /\ cl_last = NoDispatch
    /\ NoEpisodeLogger
    /\ NoFileLogger
    /\ NoIntervalLogger

InitEpisodeLoggerRun ==
    /\ clock = 0
    /\ events = 0
    /\ NoDispatcher
    /\ InitEpisodeLogger
    /\ NoFileLogger
    /\ NoIntervalLogger

InitFileLoggerRun ==
    /\ clock = 0
    /\ events = 0
    /\ NoDispatcher
    /\ NoEpisodeLogger
    /\ InitFileLogger
    /\ NoIntervalLogger

InitIntervalLoggerRun ==
    /\ clock = 0
    /\ events = 0
    /\ NoDispatcher
    /\ NoEpisodeLogger
    /\ NoFileLogger
    /\ InitIntervalLogger

\* A TrainEpisodeLogger and a FileLogger side by side, for a run of
\* MaxDeliveries events: the count of events starts as far below the bound
\* of the FileLogger as the run has calls to make.
LoggersStart == MaxFileEvents + 1 - 2 * MaxDeliveries

InitLoggers ==
    /\ clock = 0
    /\ events = LoggersStart
    /\ NoDispatcher
    /\ InitEpisodeLogger
    /\ InitFileLogger
    /\ fl_save_continiously = FALSE
    /\ NoIntervalLogger

\* The episode-end log mapping of the agent.
AgentEpisodeLogs == ("episode_reward" :> Num(3))

\* The agent delivers every event to both loggers: first to the
\* FileLogger, then the same handler of the TrainEpisodeLogger is called
\* for the same episode id.
FileLoggerTurn ==
    /\ (events - LoggersStart) % 2 = 0
    /\ \/ FL_on_train_begin
       \/ FL_on_train_end
       \/ \E episode \in Episodes : FL_on_episode_begin(episode)
       \/ \E episode \in Episodes : FL_on_episode_end(episode, AgentEpisodeLogs)
       \/ \E episode \in Episodes : \E logs \in StepLogs(episode) : FL_on_step_end(logs)

EpisodeLoggerTurn ==
    /\ (events - LoggersStart) % 2 = 1
    /\ \/ fl_last.op = "on_train_begin" /\ TEL_on_train_begin
       \/ fl_last.op = "on_train_end" /\ TEL_on_train_end
       \/ fl_last.op = "on_episode_begin" /\ TEL_on_episode_begin(fl_last.episode)
       \/ fl_last.op = "on_episode_end" /\ TEL_on_episode_end(fl_last.episode)
       \/ fl_last.op = "on_step_end"
             /\ \E logs \in StepLogs(fl_last.episode) : TEL_on_step_end(logs)

NextLoggers == FileLoggerTurn \/ EpisodeLoggerTurn

SpecDispatch == InitDispatch /\ [][NextDispatch]_vars

SpecEpisodeLogger == InitEpisodeLoggerRun /\ [][NextEpisodeLogger]_vars

SpecFileLogger == InitFileLoggerRun /\ [][NextFileLogger]_vars

SpecIntervalLogger == InitIntervalLoggerRun /\ [][NextIntervalLogger]_vars

SpecLoggers == InitLoggers /\ [][NextLoggers]_vars

\* ------------------------------------------------------- dispatcher claims

\* The legacy name the host framework gives each event.
LegacyOf(preferred) ==
    CASE preferred = "on_episode_begin" -> "on_epoch_begin"
      [] preferred = "on_episode_end" -> "on_epoch_end"
      [] preferred = "on_step_begin" -> "on_batch_begin"
      [] preferred = "on_step_end" -> "on_batch_end"

\* The hook the latest event selects on the callback at position i.
SelectedHook(i) ==
    IF cl_last.hook \in cl_callbacks[i].callable
    THEN cl_last.hook
    ELSE LegacyOf(cl_last.hook)

Implements(i) == SelectedHook(i) \in cl_callbacks[i].callable

ExpectedCall(i) ==
    [callback |-> i, hook |-> SelectedHook(i), index |-> cl_last.index, logs |-> cl_last.logs]

\* C1: after a dispatch of episode-begin, episode-end, step-begin or
\* step-end, the invocations made are one per callback, in registration
\* order, each on the preferred hook when the callback has it callable and
\* otherwise on the legacy hook, each with the event's index and logs; when
\* every registered callback has one of the two hooks and no hook raises,
\* the dispatch returns and every registered callback has been invoked.
C1_DispatchInOrder ==
    cl_last.hook # "none" =>
        /\ Len(cl_calls) <= Len(cl_callbacks)
        /\ \A i \in 1..Len(cl_calls) : cl_calls[i] = ExpectedCall(i)
        /\ cl_last.outcome = "returned" => Len(cl_calls) = Len(cl_callbacks)
        /\ (\A i \in 1..Len(cl_callbacks) : Implements(i) /\ ~cl_callbacks[i].raises)
              => /\ cl_last.outcome = "returned"
                 /\ Len(cl_calls) = Len(cl_callbacks)

\* C1 witness: a returned dispatch over three callbacks in which one was
\* invoked on the preferred hook and another on the legacy hook.
C1_Witness ==
    /\ cl_last.outcome = "returned"
    /\ Len(cl_calls) = 3
    /\ \E i, j \in 1..3 : /\ cl_calls[i].hook \in PreferredHooks
                          /\ cl_calls[j].hook \in LegacyHooks

\* Positions of the callbacks that have neither hook of the latest event.
Missing == { i \in 1..Len(cl_callbacks) : ~Implements(i) }

FirstMissing == CHOOSE i \in Missing : \A j \in Missing : i <= j

\* C2 as stated: a callback with neither hook is passed over without an
\* error and the callbacks registered after it are still invoked.
C2_MissingHookSkipped ==
    (cl_last.hook # "none" /\ \A i \in 1..Len(cl_callbacks) : ~cl_callbacks[i].raises) =>
        /\ cl_last.outcome = "returned"
        /\ \A i \in 1..Len(cl_callbacks) :
              Implements(i) => \E k \in 1..Len(cl_calls) : cl_calls[k].callback = i

\* C2 as amended: the dispatch raises at the first callback that has
\* neither hook (AttributeError when the legacy attribute is absent,
\* TypeError when it exists and is not callable); the callbacks registered
\* before it have each been invoked once, in order, and neither that
\* callback nor any callback registered after it is invoked.
C2_MissingHookRaises ==
    (/\ cl_last.hook # "none"
     /\ Missing # {}
     /\ \A i \in 1..Len(cl_callbacks) : i < FirstMissing => ~cl_callbacks[i].raises) =>
        /\ cl_last.outcome =
              (IF LegacyOf(cl_last.hook) \in cl_callbacks[FirstMissing].noncallable
               THEN "TypeError" ELSE "AttributeError")
        /\ Len(cl_calls) = FirstMissing - 1
        /\ \A k \in 1..Len(cl_calls) : cl_calls[k].callback = k

\* C2 witness: a dispatch that raised at the second of three callbacks,
\* after invoking the first, with a third callback that has the hook.
C2_Witness ==
    /\ cl_last.outcome = "AttributeError"
    /\ Len(cl_callbacks) = 3
    /\ Len(cl_calls) = 1
    /\ Missing = {2}

\* ----------------------------------------------- TrainEpisodeLogger claims

\* C8: for every episode id that has a record, the observation, reward,
\* action and metric sequences of the record have one and the same length,
\* the number of step-end events tagged with that id received since its
\* episode-begin, whatever step-end events of other episodes came between.
C8_BuffersCountSteps ==
    \A e \in DOMAIN tel_observations :
        /\ Len(tel_observations[e]) = tel_received[e]
        /\ Len(tel_rewards[e]) = tel_received[e]
        /\ Len(tel_actions[e]) = tel_received[e]
        /\ Len(tel_metrics[e]) = tel_received[e]

\* C8 witness: two episodes open at once, after interleaved step-end
\* events, holding two steps and one step.
C8_Witness ==
    /\ DOMAIN tel_observations = {0, 1}
    /\ Len(tel_observations[0]) = 2
    /\ Len(tel_observations[1]) = 1
    /\ tel_last = Event("on_step_end", 0, "returned")

\* C9: the step counter equals the number of step-end events the logger
\* has processed since construction, over all episode ids; no other event
\* changes it.
C9_StepCountsStepEnds == tel_step = tel_processed

\* C9 witness: an episode-end has just returned, after step-end events of
\* two episodes, and the counter stands at two.
C9_Witness ==
    /\ tel_last = Event("on_episode_end", 0, "returned")
    /\ tel_step = 2
    /\ 1 \in DOMAIN tel_observations
    /\ Len(tel_observations[1]) = 1

\* C10: the summary printed at the episode-end of e reports as step count
\* the number of step-end events recorded for e and as episode reward the
\* sum of the rewards of those events, leaving out the rewards of the
\* step-end events of other episodes.
C10_SummaryOfOwnSteps ==
    (tel_last.op = "on_episode_end" /\ tel_last.outcome = "returned") =>
        /\ tel_summary.episode_steps = tel_received[tel_last.episode]
        /\ tel_summary.episode_reward = tel_reward_sum[tel_last.episode]

\* C10 witness: episode 0 ended with one step of reward 1 while episode 1
\* was open with a step of reward 2.
C10_Witness ==
    /\ tel_last = Event("on_episode_end", 0, "returned")
    /\ tel_summary.episode_steps = 1
    /\ tel_summary.episode_reward = 1
    /\ 1 \in DOMAIN tel_rewards
    /\ tel_rewards[1] = <<2>>

\* ------------------------------------------------------- FileLogger claims

\* C3: an episode-begin for an id that is open (an episode-begin was
\* received for it and no episode-end since) raises an AssertionError and
\* leaves the metric buffers, the start times and the table as they were.
C3_DoubleBeginRejected ==
    [][\A e \in Episodes :
         (fl_last'.op = "on_episode_begin" /\ fl_last'.episode = e /\ e \in fl_opened) =>
             /\ fl_last'.outcome = "AssertionError"
             /\ UNCHANGED <<fl_metrics, fl_starts, fl_data>>]_vars

\* C3 witness: a second episode-begin of episode 0 was rejected while the
\* record of episode 0 held a step.
C3_Witness ==
    /\ fl_last = Event("on_episode_begin", 0, "AssertionError")
    /\ 0 \in DOMAIN fl_metrics
    /\ Len(fl_metrics[0]) = 1

\* The `episode` array of the table written last.
WrittenEpisodes == IF "episode" \in DOMAIN fl_written THEN fl_written["episode"] ELSE <<>>

\* No episode id has appended two rows and no log mapping had the key
\* `episode`.
NoEpisodeTwice ==
    /\ \A i, j \in 1..Len(fl_done) : i # j => fl_done[i] # fl_done[j]
    /\ \A keys \in fl_keysets : "episode" \notin keys

\* C4 as stated: the `episode` array save_data writes is strictly
\* ascending, whatever the order in which the episodes completed.
C4_WrittenStrictlyAscending ==
    \A i \in 1..(Len(WrittenEpisodes) - 1) : Less(WrittenEpisodes[i], WrittenEpisodes[i + 1])

\* C4 as amended: the `episode` array save_data writes is ascending,
\* whatever the order in which the episodes completed, and strictly
\* ascending when no episode id has completed twice and no log mapping had
\* the key `episode`.
C4_WrittenAscending ==
    \A i \in 1..(Len(WrittenEpisodes) - 1) :
        /\ ~Less(WrittenEpisodes[i + 1], WrittenEpisodes[i])
        /\ NoEpisodeTwice => Less(WrittenEpisodes[i], WrittenEpisodes[i + 1])

\* C4 witness: episode 1 completed before episode 0 and the table was
\* written with episode 0 first.
C4_Witness ==
    /\ "episode" \in DOMAIN fl_data
    /\ fl_data["episode"] = <<Num(1), Num(0)>>
    /\ WrittenEpisodes = <<Num(0), Num(1)>>

\* The column names the logger adds itself.
ReservedKeys == {"episode", "duration"} \cup { fl_metrics_names[i] : i \in 1..Len(fl_metrics_names) }

\* All log mappings of the rows appended so far had one and the same key
\* set, with no key that the logger adds itself.
UniformLogs ==
    /\ Cardinality(fl_keysets) <= 1
    /\ \A keys \in fl_keysets : keys \cap ReservedKeys = {}

C6_SaveIdempotent ==
    [][fl_last'.op = "save_data" =>
         /\ UNCHANGED <<fl_data, fl_metrics, fl_starts>>
         /\ fl_saves >= 1 => fl_content' = fl_content]_vars

\* C6 witness: two save_data calls in a row have written a table of one row.
C6_Witness ==
    /\ fl_saves = 2
    /\ fl_last = Event("save_data", -1, "returned")
    /\ Len(fl_done) = 1
    /\ fl_content # <<>>

\* C7 as stated: a train-end that follows a train-begin leaves the file
\* closed, whatever events came between them.
C7_TrainEndClosesFile ==
    (fl_last.op = "on_train_end" /\ fl_file # "unset") => fl_file = "closed"

\* Some column of the table differs in length from the `episode` column.
UnequalColumns ==
    \E key \in DOMAIN fl_data : Len(fl_data[key]) # Len(fl_data["episode"])

\* C7 as amended: train-begin leaves the file open and it stays open until
\* a train-end; a train-end that follows a train-begin leaves the file
\* closed, also when no episode has completed and save_data writes
\* nothing, except when its save_data aborts on the assertion that all
\* columns have the same length: then the file is left as it was.
C7_TrainEndClosesFileUnlessSaveAborts ==
    [][/\ fl_last'.op = "on_train_begin" => fl_file' = "open"
       /\ (fl_file = "open" /\ fl_last'.op # "on_train_end") => fl_file' = "open"
       /\ (fl_last'.op = "on_train_end" /\ fl_file # "unset") =>
             /\ fl_last'.outcome = "AssertionError" <=> UnequalColumns
             /\ IF UnequalColumns THEN fl_file' = fl_file ELSE fl_file' = "closed"]_vars

\* C7 witness: a train-end has closed the file after an episode began and
\* none completed.
C7_Witness ==
    /\ fl_last = Event("on_train_end", -1, "returned")
    /\ fl_file = "closed"
    /\ fl_done = <<>>
    /\ fl_opened # {}
    /\ fl_content = <<>>

\* --------------------------------------------- TrainIntervalLogger claims

\* The metric vector of the latest step-end and the vectors recorded
\* earlier in its interval.
TIL_Raw == til_history[Len(til_history)]

TIL_Earlier == SubSeq(til_history, 1, Len(til_history) - 1)

TIL_AfterStepEnd == til_last = Event("on_step_end", -1, "returned")

\* Metric idx of the latest step-end was NaN and had a number earlier in
\* the interval; it was NaN and had none.
TIL_Substituted(idx) == IsNaN(TIL_Raw[idx]) /\ NonNaN(TIL_Earlier, idx) # <<>>

TIL_StillNaN(idx) == IsNaN(TIL_Raw[idx]) /\ NonNaN(TIL_Earlier, idx) = <<>>

\* The values the progress bar was given under a name.
TIL_Shown(name) ==
    { til_progbar.values[k][2] :
        k \in { j \in 1..Len(til_progbar.values) : til_progbar.values[j][1] = name } }

\* C11 as stated: at a step-end where metric m is NaN and m had a number
\* in an earlier step of the same interval, the value displayed for m is
\* the NaN-aware mean of the raw values of m recorded earlier in the
\* interval; the history holds the raw vectors, never a substituted value.
C11_SubstitutedMeanDisplayed ==
    TIL_AfterStepEnd =>
        /\ til_metrics = til_history
        /\ \A idx \in 1..Len(TIL_Raw) :
              TIL_Substituted(idx) =>
                  TIL_Shown(til_metrics_names[idx]) = {NanMean(TIL_Earlier, idx)}

\* C11 as amended: at such a step-end the value displayed for m is that
\* mean when every metric of the step is a number after the substitution;
\* when another metric is NaN and has no number earlier in the interval,
\* the progress bar is given the reward alone and no metric is displayed;
\* the history holds the raw vectors, never a substituted value.
C11_SubstitutedMeanDisplayedIfNoNaNRemains ==
    TIL_AfterStepEnd =>
        /\ til_metrics = til_history
        /\ \A idx \in 1..Len(TIL_Raw) :
              TIL_Substituted(idx) =>
                  IF \E j \in 1..Len(TIL_Raw) : TIL_StillNaN(j)
                  THEN til_progbar.values = <<<<"reward", Num(1)>>>>
                  ELSE TIL_Shown(til_metrics_names[idx]) = {NanMean(TIL_Earlier, idx)}

\* C11 witness: `loss` was 1, then 2, then NaN at the third step of an
\* interval; 3/2 was displayed and the history holds the NaN.
C11_Witness ==
    /\ TIL_AfterStepEnd
    /\ til_metrics = <<<<Num(1), NaN>>, <<Num(2), Num(4)>>, <<NaN, Num(3)>>>>
    /\ TIL_Shown("loss") = {<<3, 2>>}
    /\ TIL_Shown("mean_q") = {Num(3)}

\* C16: a step-begin empties the metric history and renews the progress
\* bar when the step counter is a multiple of the interval and changes
\* nothing of the logger otherwise; in a run that alternates step-begin and
\* step-end, at each step-end that returns the history holds
\* (step counter mod interval) vectors before the append and at most
\* `interval` after it, and the progress position is
\* (step counter mod interval) + 1, within 1..interval.
C16_IntervalWindow ==
    [][/\ til_last'.op = "on_step_begin" =>
             IF til_step % til_interval = 0
             THEN /\ til_metrics' = <<>>
                  /\ til_progbar' = NewProgbar
                  /\ UNCHANGED <<til_step, til_interval, til_metrics_names>>
             ELSE UNCHANGED <<til_metrics, til_progbar, til_interval_start, til_step,
                              til_interval, til_metrics_names, til_train_start>>
       /\ (til_last'.op = "on_step_end" /\ til_last'.outcome = "returned"
           /\ til_paired' # "broken") =>
             /\ Len(til_metrics) = til_step % til_interval
             /\ Len(til_metrics') = Len(til_metrics) + 1
             /\ Len(til_metrics') <= til_interval
             /\ til_progbar'.current = (til_step % til_interval) + 1
             /\ til_progbar'.current \in 1..til_interval]_vars

\* C16 witness: with interval 2, the third step-end of an alternating run
\* has returned: the history was emptied before it and holds one vector.
C16_Witness ==
    /\ til_last = Event("on_step_end", -1, "returned")
    /\ til_paired = "idle"
    /\ til_interval = 2
    /\ til_step = 3
    /\ Len(til_metrics) = 1
    /\ til_progbar.current = 1

\* ------------------------------------------ claims on the episode records

C13_DoubleBeginRejected ==
    [][\A e \in Episodes :
         (tel_last'.op = "on_episode_begin" /\ tel_last'.episode = e /\ e \in tel_open) =>
             /\ tel_last'.outcome = "AssertionError"
             /\ UNCHANGED <<tel_observations, tel_rewards, tel_actions, tel_metrics>>]_vars

\* The record of episode e in the five maps.
TEL_Record(e) ==
    <<tel_episode_start[e], tel_observations[e], tel_rewards[e], tel_actions[e],
      tel_metrics[e]>>

\* C14: the five maps of a TrainEpisodeLogger have one and the same key
\* set, the set of the open ids; in a training run (after train-begin) an
\* episode-end for an open id, whatever the number of step-end events it
\* received, zero included, removes the id from the five maps and leaves
\* the records of the other open ids as they were.
C14_EpisodeEndRemovesRecord ==
    [][/\ DOMAIN tel_episode_start' = tel_open'
       /\ DOMAIN tel_observations' = tel_open'
       /\ DOMAIN tel_rewards' = tel_open'
       /\ DOMAIN tel_actions' = tel_open'
       /\ DOMAIN tel_metrics' = tel_open'
       /\ \A e \in Episodes :
            (/\ tel_last'.op = "on_episode_end"
             /\ tel_last'.episode = e
             /\ e \in tel_open
             /\ tel_train_start # -1) =>
                /\ e \notin DOMAIN tel_episode_start'
                /\ e \notin DOMAIN tel_observations'
                /\ e \notin DOMAIN tel_rewards'
                /\ e \notin DOMAIN tel_actions'
                /\ e \notin DOMAIN tel_metrics'
                /\ \A o \in tel_open \ {e} :
                      /\ o \in DOMAIN tel_observations'
                      /\ TEL_Record(o)' = TEL_Record(o)]_vars

\* C15: a step-end tagged with an open episode e returns, adds one entry
\* at the end of each buffer of e in the TrainEpisodeLogger and of the
\* metric buffer of e in the FileLogger, and leaves the start times and the
\* buffers of every other open episode as they were; hence the record an
\* episode-end reads holds the entries of the episode's own step-end
\* events, in their order, however the step events of other episodes were
\* interleaved with them.
C15_StepEndTouchesOwnRecord ==
    [][/\ \A e \in Episodes :
            (/\ tel_vars' # tel_vars
             /\ tel_last'.op = "on_step_end"
             /\ tel_last'.episode = e
             /\ e \in tel_open) =>
                /\ tel_last'.outcome = "returned"
                /\ DOMAIN tel_observations' = DOMAIN tel_observations
                /\ \E logs \in StepLogs(e) :
                      /\ tel_observations'[e] = Append(tel_observations[e], logs.observation)
                      /\ tel_rewards'[e] = Append(tel_rewards[e], logs.reward)
                      /\ tel_actions'[e] = Append(tel_actions[e], logs.action)
                      /\ tel_metrics'[e] = Append(tel_metrics[e], logs.metrics)
                /\ tel_episode_start' = tel_episode_start
                /\ \A o \in tel_open \ {e} : TEL_Record(o)' = TEL_Record(o)
       /\ \A e \in Episodes :
            (/\ fl_vars' # fl_vars
             /\ fl_last'.op = "on_step_end"
             /\ fl_last'.episode = e
             /\ e \in fl_open) =>
                /\ fl_last'.outcome = "returned"
                /\ DOMAIN fl_metrics' = DOMAIN fl_metrics
                /\ \E logs \in StepLogs(e) : fl_metrics'[e] = Append(fl_metrics[e], logs.metrics)
                /\ fl_starts' = fl_starts
                /\ \A o \in fl_open \ {e} : fl_metrics'[o] = fl_metrics[o]]_vars

\* C15 witness: episodes 0 and 1 are open in both loggers, a step-end of
\* episode 0 was followed by a step-end of episode 1, and each record holds
\* one step.
C15_Witness ==
    /\ fl_last = Event("on_step_end", 1, "returned")
    /\ tel_last = Event("on_step_end", 1, "returned")
    /\ tel_open = {0, 1}
    /\ fl_open = {0, 1}
    /\ Len(tel_rewards[0]) = 1
    /\ Len(tel_rewards[1]) = 1
    /\ Len(fl_metrics[0]) = 1
    /\ Len(fl_metrics[1]) = 1

\* ---------------------------------------------- claims on the written file

\* The latest event ran save_data and save_data wrote the file.
FL_Wrote ==
    /\ fl_last.outcome = "returned"
    /\ DOMAIN fl_data # {}
    /\ \/ fl_last.op = "save_data"
       \/ fl_last.op = "on_train_end"
       \/ fl_last.op = "on_episode_end" /\ fl_save_continiously

RowPermutations(n) == { p \in [1..n -> 1..n] : \A i, j \in 1..n : i # j => p[i] # p[j] }

\* C17: the table save_data writes has the columns of the table in memory,
\* each reordered by one and the same permutation of the rows, which puts
\* the `episode` column in ascending order; so the values written at
\* position i of all columns are those of one row in memory, the row of
\* the episode written at position i of `episode`.
C17_RowsAligned ==
    FL_Wrote =>
        /\ DOMAIN fl_written = DOMAIN fl_data
        /\ LET n == Len(fl_data["episode"])
           IN  \E p \in RowPermutations(n) :
                  /\ \A key \in DOMAIN fl_data :
                        fl_written[key] = [k \in 1..n |-> fl_data[key][p[k]]]
                  /\ \A k \in 1..(n - 1) :
                        ~Less(fl_data["episode"][p[k + 1]], fl_data["episode"][p[k]])

\* C17 witness: episode 1 ended before episode 0 with another duration,
\* and the durations were written in the order of the episode ids.
C17_Witness ==
    /\ FL_Wrote
    /\ fl_data["episode"] = <<Num(1), Num(0)>>
    /\ fl_written["episode"] = <<Num(0), Num(1)>>
    /\ fl_data["duration"][1] # fl_data["duration"][2]
    /\ fl_written["duration"] = <<fl_data["duration"][2], fl_data["duration"][1]>>

\* C18: the content of the file is empty or the serialization of the
\* table written last; a save that writes leaves as content the
\* serialization of the whole table in memory, sorted, and nothing after
\* it; and from one event to the next the content gets shorter only when
\* train-begin truncates the file.
C18_ContentIsSerializedTable ==
    [][/\ fl_content' = <<>> \/ fl_content' = <<"{">> \o Serialize(fl_written', 1)
       /\ FL_Wrote' =>
             /\ fl_content' = <<"{">> \o Serialize(fl_written', 1)
             /\ DOMAIN fl_written' = DOMAIN fl_data'
             /\ \A key \in DOMAIN fl_data' : Len(fl_written'[key]) = Len(fl_data'[key])
       /\ fl_last'.op # "on_train_begin" => Len(fl_content') >= Len(fl_content)]_vars

\* C18 witness: the second save of a training run has written a table of
\* two rows over the serialization of its first row.
C18_Witness ==
    /\ FL_Wrote
    /\ fl_last.op = "on_episode_end"
    /\ fl_done = <<0, 0>>
    /\ Len(fl_written["episode"]) = 2
    /\ fl_content = <<"{">> \o Serialize(fl_written, 1)

\* The number of rows of episode id in a column of ids.
RowsOf(column, id) == Cardinality({ k \in 1..Len(column) : column[k] = id })

\* The file holds one row for every episode-end that appended a row.
FL_FileHoldsCompleted ==
    /\ fl_content = <<"{">> \o Serialize(fl_written, 1)
    /\ "episode" \in DOMAIN fl_written
    /\ \A key \in DOMAIN fl_written : Len(fl_written[key]) = Len(fl_done)
    /\ \A e \in Episodes :
          RowsOf(fl_written["episode"], Num(e)) = RowsOf(fl_done, e)

====
